---------------------------- MODULE Spec2Model ----------------------------
(***************************************************************************)
(* The single-lineage search engine of src/src/genetic.py: Runner.run,     *)
(* AgeAnnealingRunner.run and FitnessStagnationDetection, driven by the    *)
(* password-guessing strategies of src/scripts/ch01/guess_password.py;     *)
(* then the strategies of the other problems that work on a candidate of   *)
(* their own: the knapsack, the cricket fixture list, the magic square,    *)
(* the chess board and the knights on it.                                  *)
(*                                                                         *)
(* A candidate (chromosome) is a record [genes, age].  Python names are    *)
(* references: AgeAnnealingRunner.run keeps two of them between            *)
(* generations, best_parent and parent, which may name the same object.    *)
(* The variable aliased says whether they do; while it holds, a write      *)
(* through one name is a write through the other.                          *)
(***************************************************************************)
EXTENDS Integers, Sequences, FiniteSets

\* Bounds of the model.
MaxGenerations == 6
MaxRuns == 2

\* Strategy inputs: the target string, the gene alphabet, and the limits a
\* caller passes to run().
Target == <<"A", "B">>
GeneSet == {"A", "B"}
FitnessStagnationLimits == {1, 2, 5}
\* Limits that allow no generation at all
NonPositiveLimits == {0, -1}

\* genetic.py:385, last_fitness = None (fitness values are never negative)
None == -1
\* age_limit = float("inf"), the default of the scripts' entry points
Infinite == -1
AgeLimits == {0, 1, 2, Infinite}
\* genetic.py:138 and 232, the default of run(fitness_stagnation_limit)
DefaultFitnessStagnationLimit == 10000

\* random.random() in millionths; exp works at the same scale
Scale == 1000000
RandomDraws == {0, 500000, 999999}

\* The state of the random module: seeded from the operating system's
\* entropy (as at import, and by random.seed() without an argument), or by
\* random.seed(s) with a number s of the caller's
Entropy == -1
Seeds == {1, 3}

VARIABLES
    pc,                        \* "start", "loop" (top of while True), "done"
    runner,                    \* "Runner" or "AgeAnnealingRunner"
    fitness,                   \* self.fitness: the strategy plugged in
    optimal_fitness,           \* threshold of self.stopping_criteria
    fitness_stagnation_limit,  \* argument of run()
    age_limit,                 \* self.age_annealing.age_limit
    best_parent,
    parent,
    aliased,                   \* parent is best_parent (the same object)
    historical_fitnesses,      \* self.age_annealing.historical_fitnesses
    last_fitness,              \* fitness_stagnation_detector.last_fitness
    last_generation,           \* fitness_stagnation_detector.last_generation
    iteration_num,             \* passes of the loop: calls of self.mutate
    result,                    \* what run() returned, and why
    gen,                       \* what the last generation did
    initial,                   \* the candidate the generator returned
    stagnant,                  \* consecutive generations without improvement
    best_seen,                 \* best fitness best_parent held in this run
    fittest_seen,              \* best fitness of the candidates the generator
                               \* and mutate returned in this run
    runs,                      \* invocations of run() on this runner
    generations,               \* generations executed by this runner
    random_state,              \* what the random module was last seeded with
    seeded_runs,               \* each run() a seeding caller made: the seed
                               \* in force at the call, and what the run
                               \* before it had returned
    detector_call              \* the last call of a FitnessStagnationDetection
                               \* a caller made and calls on its own

engine_vars == <<pc, runner, fitness, optimal_fitness,
                 fitness_stagnation_limit, age_limit, best_parent, parent,
                 aliased, historical_fitnesses, last_fitness, last_generation,
                 iteration_num, result, gen, initial, stagnant, best_seen,
                 fittest_seen, runs, generations, random_state, seeded_runs,
                 detector_call>>

\* The knapsack problem, scripts/ch09/knapsack_problem.py
VARIABLES
    knapsack,                  \* the KnapsackChromosome in hand
    max_weight,                \* capacity of the knapsack, in grams
    max_volume,                \* capacity of the knapsack, in centilitres
    knapsack_op                \* what produced the chromosome in hand

knapsack_vars == <<knapsack, max_weight, max_volume, knapsack_op>>

\* The cricket fixture list, src/cricket_fixtures/mutation.py
VARIABLES
    fixture_list,              \* genes of the parent FixtureListChromosome
    fixture_child,             \* genes of copy_of_parent, mutated in place
    swaps                      \* where SwapUpToNFixturesMutation.mutate is

fixture_vars == <<fixture_list, fixture_child, swaps>>

\* The magic square, scripts/ch08/magic_squares.py
VARIABLES
    magic_square,              \* genes of the parent MagicSquaresChromosome
    magic_child,               \* genes of the deepcopy, mutated in place
    magic_pc                   \* where MagicSquaresMutation.__call__ is

magic_vars == <<magic_square, magic_child, magic_pc>>

\* The chess board, src/chess.py
VARIABLES
    board,                     \* a Board: the piece on each square
    moved                      \* the last Board.move: the board before, and
                               \* the two positions

board_vars == <<board, moved>>

\* The knights, scripts/ch07/knight_attack.py
VARIABLES
    knight_parent,             \* genes (a Board) of the parent chromosome
    knight_child,              \* genes of the deepcopy, mutated in place
    knight_moves               \* where KnightAttackMutation.__call__ is

knight_vars == <<knight_parent, knight_child, knight_moves>>

\* The card problem, scripts/ch06/card_problem.py
VARIABLES
    cards,                     \* genes of the CardProblemChromosomes compared
    card_gt                    \* card_gt[i][j]: what fitness(cards[i]) >
                               \* fitness(cards[j]) returned

card_vars == <<cards, card_gt>>

scripts_vars ==
    <<knapsack_vars, fixture_vars, magic_vars, board_vars, knight_vars,
      card_vars>>

vars == <<engine_vars, scripts_vars>>

config == <<runner, fitness, optimal_fitness, age_limit>>


-----------------------------------------------------------------------------
(* Strategies: guess_password.py *)

Min(a, b) == IF a < b THEN a ELSE b

\* A fresh chromosome: GuessPasswordChromosome(genes, age)
Chromosome(genes, age) == [genes |-> genes, age |-> age]

\* No object: a local of run() that is not bound yet
NoCandidate == [genes |-> <<>>, age |-> 0]

\* Every string of the target's length over the alphabet
Genes == [1..Len(Target) -> GeneSet]

\* GuessPasswordFitness.__call__: the positions zip(target, genes) pairs up
\* that hold the same character
GuessPasswordFitness(genes) ==
    Cardinality({i \in 1..Min(Len(Target), Len(genes)) : Target[i] = genes[i]})

\* self.fitness(chromosome): the fitness function plugged in.  "ZeroFitness"
\* returns 0 for every candidate.  "RelativeFitness" is a RelativeFitness
\* class: self.fitness(chromosome) makes a wrapper of the chromosome, and
\* the wrappers have only __gt__, here the one that compares the matching
\* positions; the number is then the rank of the wrapper, a > b (and b < a,
\* which Python turns into a > b) exactly when a's rank is above b's.
Fitness(chromosome) ==
    IF fitness \in {"GuessPasswordFitness", "RelativeFitness"}
    THEN GuessPasswordFitness(chromosome.genes)
    ELSE 0

\* Mutant: the threshold has to be exceeded
StoppingCriteriaStrict(chromosome) == Fitness(chromosome) > optimal_fitness

\* GuessPasswordStoppingCriteria.__call__, the threshold being optimal_fitness
StoppingCriteria(chromosome) == Fitness(chromosome) >= optimal_fitness

\* GuessPasswordMutation.__call__: one position gets a character of the gene
\* set other than the one it holds
GuessPasswordMutation(genes) ==
    UNION {{[genes EXCEPT ![i] = c] : c \in GeneSet \ {genes[i]}} :
              i \in 1..Len(genes)}

\* GuessPasswordChromosomeGenerator.__call__: random.sample draws without
\* replacement, so each block of len(GeneSet) genes holds distinct characters
GuessPasswordChromosomeGenerator ==
    {g \in Genes : \A i, j \in 1..Len(Target) :
        (i # j /\ (i - 1) \div Cardinality(GeneSet) = (j - 1) \div Cardinality(GeneSet))
            => g[i] # g[j]}

\* The ages a mutation gives its child: 0 (a new chromosome, as
\* GuessPasswordMutation) or the parent's (a deepcopy of the parent, as
\* MagicSquaresMutation and TestMutation)
ChildAges(p) == {0, p.age}

-----------------------------------------------------------------------------
(* FitnessStagnationDetection *)

\* Mutant: a fitness equal to the stored one counts as an improvement
DetectNotWorse(f, lf, lg, limit) ==
    IF lf = None
    THEN [last_fitness |-> f, last_generation |-> 0, stagnated |-> FALSE]
    ELSE IF f >= lf
    THEN [last_fitness |-> f, last_generation |-> 0, stagnated |-> FALSE]
    ELSE [last_fitness |-> lf, last_generation |-> lg + 1,
          stagnated |-> lg + 1 >= limit]

\* FitnessStagnationDetection.__call__ on a chromosome of fitness f, the
\* detector holding last_fitness lf and last_generation lg
Detect(f, lf, lg, limit) ==
    IF lf = None
    THEN [last_fitness |-> f, last_generation |-> 0, stagnated |-> FALSE]
    ELSE IF f > lf
    THEN [last_fitness |-> f, last_generation |-> 0, stagnated |-> FALSE]
    ELSE [last_fitness |-> lf, last_generation |-> lg + 1,
          stagnated |-> lg + 1 >= limit]

-----------------------------------------------------------------------------
(* AgeAnnealing *)

\* bisect.bisect_left(a, x, lo, hi) as the standard library computes it, on
\* a list that need not be sorted; a is 1-based here, lo and hi are Python's
RECURSIVE bisect_left(_, _, _, _)
bisect_left(a, x, lo, hi) ==
    IF lo < hi
    THEN LET mid == (lo + hi) \div 2
         IN  IF a[mid + 1] < x
             THEN bisect_left(a, x, mid + 1, hi)
             ELSE bisect_left(a, x, lo, mid)
    ELSE lo

\* The k-th and later terms of the series of exp(-index/length), in
\* millionths: term is the absolute value of the (k-1)-th
RECURSIVE ExpSeries(_, _, _, _)
ExpSeries(index, length, k, term) ==
    LET t == (term * index) \div (length * k)
    IN  IF t = 0 THEN 0
        ELSE (IF k % 2 = 1 THEN 0 - t ELSE t)
             + ExpSeries(index, length, k + 1, t)

\* exp(-proportion_similar), proportion_similar = index / len(history)
ExpNeg(index, length) == Scale + ExpSeries(index, length, 1, Scale)

\* random.random() < exp(-proportion_similar)
AnnealingDraw(r, index, length) == r < ExpNeg(index, length)

\* not self.age_annealing.age_limit: None and 0 are falsy, float("inf") is not
NoAgeLimit == age_limit = 0

\* parent.age < self.age_annealing.age_limit
BelowAgeLimit(age) == age_limit = Infinite \/ age < age_limit

-----------------------------------------------------------------------------
(* The engine: what one pass of the loop does *)

Max(a, b) == IF a > b THEN a ELSE b

NoResult == [candidate |-> NoCandidate, why |-> "none"]

NoGeneration ==
    [branch |-> "none", parent |-> NoCandidate, best_parent |-> NoCandidate,
     child |-> NoCandidate, displayed |-> FALSE, stopping_checked |-> FALSE,
     new_best |-> FALSE, draw |-> None, index |-> None,
     historical_fitnesses |-> <<>>]

\* A pass that changes nothing and goes back to the top of the loop
Continue ==
    [pc |-> "loop", best_parent |-> best_parent, parent |-> parent,
     aliased |-> aliased, historical_fitnesses |-> historical_fitnesses,
     last_fitness |-> last_fitness, last_generation |-> last_generation,
     result |-> result, branch |-> "continue", displayed |-> FALSE,
     stopping_checked |-> FALSE, new_best |-> FALSE]

\* fitness_stagnation_detector(best_parent)
DetectStagnation ==
    Detect(Fitness(best_parent), last_fitness, last_generation,
           fitness_stagnation_limit)

\* return candidate
Return(candidate, why) == [candidate |-> candidate, why |-> why]

\* Mutant: the child is not compared with best_parent
RunnerStepAnyChild(child) ==
    IF StoppingCriteria(child)
    THEN [Continue EXCEPT
            !.pc = "done", !.result = Return(child, "stopping"),
            !.branch = "not_worse", !.displayed = TRUE,
            !.stopping_checked = TRUE]
    ELSE [Continue EXCEPT
            !.best_parent = child, !.branch = "not_worse",
            !.displayed = TRUE, !.stopping_checked = TRUE]

\* Runner.run, one pass of while True with the child mutate returned
RunnerStep(child) ==
    IF Fitness(best_parent) > Fitness(child)
    THEN LET d == DetectStagnation
         IN  [Continue EXCEPT
                !.pc = IF d.stagnated THEN "done" ELSE "loop",
                !.last_fitness = d.last_fitness,
                !.last_generation = d.last_generation,
                !.result = IF d.stagnated
                           THEN Return(best_parent, "stagnation") ELSE result,
                !.branch = IF d.stagnated THEN "stagnation" ELSE "worse"]
    ELSE IF StoppingCriteria(child)
    THEN [Continue EXCEPT
            !.pc = "done", !.result = Return(child, "stopping"),
            !.branch = "not_worse", !.displayed = TRUE,
            !.stopping_checked = TRUE]
    ELSE [Continue EXCEPT
            !.best_parent = child, !.branch = "not_worse",
            !.displayed = TRUE, !.stopping_checked = TRUE]

\* Mutant: the equally fit child takes the parent's age as it is
EqualChildAgeKept(p) == p.age

\* child.age = parent.age + 1
EqualChildAge(p) == p.age + 1

\* child.age = 0
BetterChildAge(p) == 0

\* parent.age += 1
OlderParentAge(p) == p.age + 1

\* Mutant: no child counts as equally fit
FitnessNeverEqual(a, b) == FALSE

\* self.fitness(parent) == self.fitness(child): numbers compare by value;
\* the two wrappers of a RelativeFitness, which defines no __eq__, are two
\* objects and compare by identity
FitnessEqual(a, b) ==
    IF fitness = "RelativeFitness" THEN FALSE ELSE Fitness(a) = Fitness(b)

\* AgeAnnealingRunner.run from "if self.fitness(parent) == self.fitness(child)"
\* to the end of the pass, with best_parent bp and parent p as the first half
\* of the pass left them, and o what that half has done so far
CompareStep(child, bp, p, o, branch) ==
    IF FitnessEqual(p, child)
    THEN [o EXCEPT
            !.best_parent = bp,
            !.parent = [child EXCEPT !.age = EqualChildAge(p)],
            !.aliased = FALSE,
            !.branch = branch \o "equal"]
    ELSE LET c == [child EXCEPT !.age = BetterChildAge(p)]
             new_best == Fitness(bp) < Fitness(c)
             history == IF new_best
                        THEN Append(historical_fitnesses, Fitness(c))
                        ELSE historical_fitnesses
         IN  IF StoppingCriteria(c)
             THEN [o EXCEPT
                     !.pc = "done",
                     !.best_parent = IF new_best THEN c ELSE bp,
                     !.parent = c,
                     !.aliased = new_best,
                     !.historical_fitnesses = history,
                     !.result = Return(c, "stopping"),
                     !.branch = branch \o "better",
                     !.displayed = TRUE, !.stopping_checked = TRUE,
                     !.new_best = new_best]
             ELSE [o EXCEPT
                     !.best_parent = c,
                     !.parent = c,
                     !.aliased = TRUE,
                     !.historical_fitnesses = history,
                     !.branch = branch \o "better",
                     !.displayed = TRUE, !.stopping_checked = TRUE,
                     !.new_best = new_best]

\* index = bisect_left(historical_fitnesses, fitness(child), 0, len(...)):
\* the numerator of proportion_similar
HistoryIndex(child) ==
    bisect_left(historical_fitnesses, Fitness(child), 0,
                Len(historical_fitnesses))

\* AgeAnnealingRunner.run, one pass of while True with the child mutate
\* returned and the number r random.random() returns if it is called
AgeAnnealingStep(child, r) ==
    IF Fitness(parent) > Fitness(child)
    THEN LET d == DetectStagnation
             o == [Continue EXCEPT !.last_fitness = d.last_fitness,
                                   !.last_generation = d.last_generation]
             older == [parent EXCEPT !.age = OlderParentAge(parent)]
             best == IF aliased THEN older ELSE best_parent
             index == HistoryIndex(child)
             reset == [best EXCEPT !.age = 0]
         IN  IF d.stagnated
             THEN [o EXCEPT !.pc = "done",
                            !.result = Return(best_parent, "stagnation"),
                            !.branch = "stagnation"]
             ELSE IF NoAgeLimit
             THEN [o EXCEPT !.branch = "no_age_limit"]
             ELSE IF BelowAgeLimit(older.age)
             THEN [o EXCEPT !.best_parent = best, !.parent = older,
                            !.branch = "below_age_limit"]
             ELSE IF AnnealingDraw(r, index, Len(historical_fitnesses))
             THEN [o EXCEPT !.best_parent = best,
                            !.parent = child,
                            !.aliased = FALSE, !.branch = "annealed"]
             ELSE CompareStep(child, reset, reset, o, "reverted_")
    ELSE CompareStep(child, best_parent, parent, Continue, "")

-----------------------------------------------------------------------------
(* The problems' own candidates are not in play while the engine runs the   *)
(* password strategies, and no runner is while a problem's strategies are   *)
(* exercised on their own.                                                  *)

NoKnapsack ==
    /\ knapsack = NoCandidate
    /\ max_weight = 0
    /\ max_volume = 0
    /\ knapsack_op = "none"

NoFixtures ==
    /\ fixture_list = <<>>
    /\ fixture_child = <<>>
    /\ swaps = [pc |-> "none"]

NoMagicSquare ==
    /\ magic_square = <<>>
    /\ magic_child = <<>>
    /\ magic_pc = [pc |-> "none"]

NoBoard ==
    /\ board = <<>>
    /\ moved = <<>>

NoKnights ==
    /\ knight_parent = <<>>
    /\ knight_child = <<>>
    /\ knight_moves = [pc |-> "none"]

NoCards ==
    /\ cards = <<>>
    /\ card_gt = <<>>

\* Every problem but the one named is out of play
Only(problem) ==
    /\ problem # "cards" => NoCards
    /\ problem # "knapsack" => NoKnapsack
    /\ problem # "fixtures" => NoFixtures
    /\ problem # "magic_square" => NoMagicSquare
    /\ problem # "board" => NoBoard
    /\ problem # "knights" => NoKnights

NoScripts == Only("none")

-----------------------------------------------------------------------------
(* Actions *)

\* A runner object after construction, run() not called yet
Constructed ==
    /\ pc = "start"
    /\ fitness_stagnation_limit = DefaultFitnessStagnationLimit
    /\ best_parent = NoCandidate
    /\ parent = NoCandidate
    /\ aliased = FALSE
    /\ historical_fitnesses = <<>>
    /\ last_fitness = None
    /\ last_generation = 0
    /\ iteration_num = 0
    /\ result = NoResult
    /\ gen = NoGeneration
    /\ initial = NoCandidate
    /\ stagnant = 0
    /\ best_seen = 0
    /\ fittest_seen = 0
    /\ runs = 0
    /\ generations = 0
    /\ random_state = Entropy
    /\ seeded_runs = <<>>
    /\ detector_call = [pc |-> "none"]

Init ==
    /\ runner \in {"Runner", "AgeAnnealingRunner"}
    /\ fitness \in {"GuessPasswordFitness", "ZeroFitness"}
    /\ optimal_fitness \in {Len(Target), Len(Target) + 1}
    /\ age_limit \in IF runner = "AgeAnnealingRunner" THEN AgeLimits ELSE {0}
    /\ Constructed
    /\ NoScripts

\* run(limit) up to the loop: a new detector, the generator's candidate c,
\* the stopping criteria on it, and in AgeAnnealingRunner its fitness added
\* to the history and parent = deepcopy(best_parent)
RunInit(limit, c) ==
    /\ pc \in {"start", "done"}
    /\ runs' = runs + 1
    /\ fitness_stagnation_limit' = limit
    /\ last_fitness' = None
    /\ last_generation' = 0
    /\ iteration_num' = 0
    /\ best_parent' = c
    /\ initial' = c
    /\ gen' = NoGeneration
    /\ stagnant' = 0
    /\ best_seen' = Fitness(c)
    /\ fittest_seen' = Fitness(c)
    /\ IF StoppingCriteria(c)
       THEN /\ pc' = "done"
            /\ result' = Return(c, "initial")
            /\ parent' = NoCandidate
            /\ UNCHANGED historical_fitnesses
       ELSE /\ pc' = "loop"
            /\ result' = NoResult
            /\ parent' = IF runner = "AgeAnnealingRunner" THEN c ELSE NoCandidate
            /\ historical_fitnesses' =
                   IF runner = "AgeAnnealingRunner"
                   THEN Append(historical_fitnesses, Fitness(c))
                   ELSE historical_fitnesses
    /\ aliased' = FALSE
    /\ random_state' = Entropy
    /\ UNCHANGED <<config, generations, detector_call, scripts_vars>>

\* What one pass of the loop leaves behind: o is what the pass computed from
\* the child mutate returned, r the number random.random() returned (None
\* if the pass did not call it)
Generation(o, child, r) ==
    /\ iteration_num' = iteration_num + 1
    /\ generations' = generations + 1
    /\ pc' = o.pc
    /\ best_parent' = o.best_parent
    /\ parent' = o.parent
    /\ aliased' = o.aliased
    /\ historical_fitnesses' = o.historical_fitnesses
    /\ last_fitness' = o.last_fitness
    /\ last_generation' = o.last_generation
    /\ result' = o.result
    /\ gen' = [branch |-> o.branch, parent |-> parent,
               best_parent |-> best_parent, child |-> child,
               displayed |-> o.displayed,
               stopping_checked |-> o.stopping_checked,
               new_best |-> o.new_best, draw |-> r,
               index |-> IF r = None THEN None ELSE HistoryIndex(child),
               historical_fitnesses |-> historical_fitnesses]
    /\ stagnant' = IF Fitness(child) > Fitness(best_parent)
                   THEN 0 ELSE stagnant + 1
    /\ best_seen' = Max(best_seen, Fitness(o.best_parent))
    /\ fittest_seen' = Max(fittest_seen, Fitness(child))
    /\ UNCHANGED <<config, fitness_stagnation_limit, initial, runs,
                   random_state, seeded_runs, detector_call, scripts_vars>>

\* One pass of Runner.run; mutate may return any string over the gene set
RunnerIteration(children) ==
    /\ pc = "loop"
    /\ runner = "Runner"
    /\ \E genes \in children, age \in ChildAges(best_parent) :
          LET child == Chromosome(genes, age)
          IN  Generation(RunnerStep(child), child, None)

\* Whether a pass with this child reaches random.random()
DrawsRandom(child) ==
    /\ Fitness(parent) > Fitness(child)
    /\ ~DetectStagnation.stagnated
    /\ ~NoAgeLimit
    /\ ~BelowAgeLimit(OlderParentAge(parent))

\* One pass of AgeAnnealingRunner.run
AgeAnnealingIteration(children) ==
    /\ pc = "loop"
    /\ runner = "AgeAnnealingRunner"
    /\ \E genes \in children, age \in ChildAges(parent) :
          LET child == Chromosome(genes, age)
          IN  \E r \in IF DrawsRandom(child) THEN RandomDraws ELSE {None} :
                 Generation(AgeAnnealingStep(child, r), child, r)

\* run() called on the runner, for the first time or again
Run ==
    /\ runs < MaxRuns
    /\ \E limit \in FitnessStagnationLimits \cup NonPositiveLimits,
          genes \in Genes :
          RunInit(limit, Chromosome(genes, 0))
    /\ UNCHANGED seeded_runs

RunnerGeneration ==
    /\ generations < MaxGenerations
    /\ RunnerIteration(Genes)

AgeAnnealingGeneration ==
    /\ generations < MaxGenerations
    /\ AgeAnnealingIteration(Genes)

Next == Run \/ RunnerGeneration \/ AgeAnnealingGeneration

Spec == Init /\ [][Next]_vars

-----------------------------------------------------------------------------
(* The password-guessing scenario as guess_password() runs it: a            *)
(* GuessPasswordRunner, and runner.run() called without a limit             *)

GuessPasswordInit ==
    /\ runner = "Runner"
    /\ fitness = "GuessPasswordFitness"
    /\ optimal_fitness = Len(Target)
    /\ age_limit = 0
    /\ Constructed
    /\ NoScripts

GuessPasswordRun ==
    /\ runs = 0
    /\ \E genes \in GuessPasswordChromosomeGenerator :
          RunInit(DefaultFitnessStagnationLimit, Chromosome(genes, 0))
    /\ UNCHANGED seeded_runs

GuessPasswordGeneration ==
    RunnerIteration(GuessPasswordMutation(best_parent.genes))

GuessPasswordNext == GuessPasswordRun \/ GuessPasswordGeneration

GuessPasswordSpec == GuessPasswordInit /\ [][GuessPasswordNext]_vars

-----------------------------------------------------------------------------
(* An AgeAnnealingRunner whose fitness is a RelativeFitness                 *)

RelativeInit ==
    /\ runner = "AgeAnnealingRunner"
    /\ fitness = "RelativeFitness"
    /\ optimal_fitness \in {Len(Target), Len(Target) + 1}
    /\ age_limit \in AgeLimits
    /\ Constructed
    /\ NoScripts


RelativeSpec == RelativeInit /\ [][Run \/ AgeAnnealingGeneration]_vars

\* No runner is in play
NoRunner ==
    /\ runner = "Runner"
    /\ fitness = "GuessPasswordFitness"
    /\ optimal_fitness = Len(Target)
    /\ age_limit = 0
    /\ Constructed

-----------------------------------------------------------------------------
(* A FitnessStagnationDetection made and called by a caller of its own,     *)
(* with chromosomes of any fitness in any order.  Its attributes are the    *)
(* variables the runner's detector has: fitness_stagnation_limit (its       *)
(* generations), last_fitness and last_generation.                          *)

\* Calls without improvement that are followed
MaxLastGeneration == 4

DetectorInit ==
    /\ NoRunner
    /\ NoScripts

\* FitnessStagnationDetection(fitness, generations), the limit 1, 2 or 3
DetectorConstruct ==
    /\ detector_call.pc = "none"
    /\ \E limit \in 1..3 : fitness_stagnation_limit' = limit
    /\ last_fitness' = None
    /\ last_generation' = 0
    /\ detector_call' = [pc |-> "made", count |-> 0]
    /\ UNCHANGED <<pc, config, best_parent, parent, aliased,
                   historical_fitnesses, iteration_num, result, gen, initial,
                   stagnant, best_seen, fittest_seen, runs, generations,
                   random_state, seeded_runs, scripts_vars>>

\* detector(chromosome), the chromosome being one of fitness f;
\* detector_call keeps what the detector held before the call, what the
\* call returned, and the calls without improvement since the last call
\* that stored a fitness
DetectorCall ==
    /\ detector_call.pc # "none"
    /\ last_generation < MaxLastGeneration
    /\ \E f \in 0..Len(Target) :
          LET d == Detect(f, last_fitness, last_generation,
                          fitness_stagnation_limit)
          IN  /\ last_fitness' = d.last_fitness
              /\ last_generation' = d.last_generation
              /\ detector_call' =
                     [pc |-> "called", fitness |-> f,
                      last_fitness |-> last_fitness,
                      last_generation |-> last_generation,
                      returned |-> d.stagnated,
                      count |-> IF last_fitness = None \/ f > last_fitness
                                THEN 0 ELSE detector_call.count + 1]
    /\ UNCHANGED <<pc, config, fitness_stagnation_limit, best_parent, parent,
                   aliased, historical_fitnesses, iteration_num, result, gen,
                   initial, stagnant, best_seen, fittest_seen, runs,
                   generations, random_state, seeded_runs, scripts_vars>>

DetectorSpec == DetectorInit /\ [][DetectorConstruct \/ DetectorCall]_vars

-----------------------------------------------------------------------------
(* A caller that fixes a seed before each run(), as test_guess_password     *)
(* does: random.seed(s), then run() on a runner with the password           *)
(* strategies.  run() begins with random.seed(), which seeds the module     *)
(* from entropy again, so every draw of the run (the generator's, the       *)
(* mutation's, random.random()) stays an arbitrary one.                     *)

SeedInit ==
    /\ Init
    /\ fitness = "GuessPasswordFitness"

\* random.seed(s) by the caller, between runs
SeedRandom ==
    /\ pc \in {"start", "done"}
    /\ runs < MaxRuns
    /\ random_state = Entropy
    /\ \E s \in Seeds : random_state' = s
    /\ UNCHANGED <<pc, config, fitness_stagnation_limit, best_parent, parent,
                   aliased, historical_fitnesses, last_fitness,
                   last_generation, iteration_num, result, gen, initial,
                   stagnant, best_seen, fittest_seen, runs, generations,
                   seeded_runs, detector_call, scripts_vars>>

\* run() after the caller's random.seed(s), with the limit of the run before
SeededRun ==
    /\ runs < MaxRuns
    /\ random_state \in Seeds
    /\ \E limit \in IF runs = 0 THEN FitnessStagnationLimits
                              ELSE {fitness_stagnation_limit},
          genes \in Genes :
          RunInit(limit, Chromosome(genes, 0))
    /\ seeded_runs' = Append(seeded_runs,
                             [seed |-> random_state, returned |-> result,
                              iteration_num |-> iteration_num])

SeedNext ==
    SeedRandom \/ SeededRun \/ RunnerGeneration \/ AgeAnnealingGeneration

SeedSpec == SeedInit /\ [][SeedNext]_vars

-----------------------------------------------------------------------------
(* The knapsack problem: scripts/ch09/knapsack_problem.py.  Weights are in  *)
(* grams and volumes in centilitres, so that the quantities of the tests    *)
(* (0.265 kg, 0.41 l, ...) are whole numbers.                               *)

\* Resource(name, value, weight, volume)
Resource(name, value, weight, volume) ==
    [name |-> name, value |-> value, weight |-> weight, volume |-> volume]

\* The gene set of test_cookies_fill_knapsack
KnapsackGeneSet ==
    <<Resource("Flour", 1680, 265, 41),
      Resource("Butter", 1440, 500, 13),
      Resource("Sugar", 1840, 441, 29)>>

\* The names in the order Python's string comparison gives them
NameOrder == <<"Butter", "Flour", "Sugar">>

\* The knapsacks to fill: (max_weight, max_volume)
Knapsacks == {<<1000, 100>>, <<2000, 200>>, <<10000, 400>>}

\* int(a / b) for b > 0: the quotient truncated towards zero
IntDiv(a, b) == IF a >= 0 THEN a \div b ELSE 0 - ((0 - a) \div b)

\* sys.maxsize, cut to 32 bits: a quantity no knapsack here comes near
MaxSize == 2147483647

\* Mutant: the quantity the remaining weight allows, whatever the volume
MaxQuantityByWeight(resource, weight, volume) ==
    IF resource.weight > 0 THEN IntDiv(weight, resource.weight) ELSE MaxSize

\* Resource.max_quantity(max_weight, max_volume)
max_quantity(resource, weight, volume) ==
    Min(IF resource.weight > 0 THEN IntDiv(weight, resource.weight)
                               ELSE MaxSize,
        IF resource.volume > 0 THEN IntDiv(volume, resource.volume)
                               ELSE MaxSize)

\* ResourceQuantity(resource, quantity)
ResourceQuantity(resource, quantity) ==
    [resource |-> resource, quantity |-> quantity]

\* KnapsackChromosome.total_weight
RECURSIVE total_weight(_)
total_weight(genes) ==
    IF genes = <<>> THEN 0
    ELSE Head(genes).resource.weight * Head(genes).quantity
         + total_weight(Tail(genes))

\* KnapsackChromosome.total_volume
RECURSIVE total_volume(_)
total_volume(genes) ==
    IF genes = <<>> THEN 0
    ELSE Head(genes).resource.volume * Head(genes).quantity
         + total_volume(Tail(genes))

\* KnapsackChromosome.remaining_weight(max_weight)
remaining_weight(genes) == max_weight - total_weight(genes)

\* KnapsackChromosome.remaining_volume(max_volume)
remaining_volume(genes) == max_volume - total_volume(genes)

\* del genes[idx], idx being 1-based here
Delete(genes, idx) ==
    SubSeq(genes, 1, idx - 1) \o SubSeq(genes, idx + 1, Len(genes))

\* No gene: add() returned None
NoGene == ResourceQuantity(Resource("", 0, 0, 0), 0)

\* add(genes, gene_set, max_weight, max_volume): a resource not in the genes
\* yet, chosen at random, in the largest quantity that fits, or None.  With
\* every resource used the loop that draws one never ends: no outcome.
add(genes, weight, volume) ==
    LET used_resources == {genes[i].resource : i \in 1..Len(genes)}
    IN  {LET resource == KnapsackGeneSet[k]
             quantity == max_quantity(resource, weight, volume)
         IN  IF quantity > 0 THEN ResourceQuantity(resource, quantity)
                             ELSE NoGene :
            k \in {j \in 1..Len(KnapsackGeneSet) :
                      KnapsackGeneSet[j] \notin used_resources}}


\* KnapsackChromosomeGenerator.__call__ with n passes of its loop to go: the
\* gene lists it can end with
RECURSIVE KnapsackGenerated(_, _, _, _)
KnapsackGenerated(n, genes, weight, volume) ==
    IF n = 0 THEN {genes}
    ELSE UNION {
        IF new_gene = NoGene
        THEN KnapsackGenerated(n - 1, genes, weight, volume)
        ELSE KnapsackGenerated(
                 n - 1, Append(genes, new_gene),
                 weight - new_gene.quantity * new_gene.resource.weight,
                 volume - new_gene.quantity * new_gene.resource.volume) :
        new_gene \in add(genes, weight, volume)}

\* KnapsackChromosomeGenerator.__call__: random.randrange(1, len(gene_set))
\* passes
KnapsackChromosomeGenerator ==
    UNION {KnapsackGenerated(n, <<>>, max_weight, max_volume) :
              n \in 1..(Len(KnapsackGeneSet) - 1)}

\* KnapsackMutation.choose_to_remove_item and remove_random_item: the genes
\* as they are, or (more than one gene) with one of them deleted
RemovedItem(genes) ==
    {genes} \cup (IF Len(genes) > 1
                  THEN {Delete(genes, idx) : idx \in 1..Len(genes)}
                  ELSE {})

\* KnapsackMutation.choose_to_add_item: the answers it can give, the random
\* number being any
choose_to_add_item(genes) ==
    LET weight_ok == remaining_weight(genes) > 0
        volume_ok == remaining_volume(genes) > 0
        knapsack_empty == Len(genes) = 0
        not_all_resources_added == Len(genes) < Len(KnapsackGeneSet)
    IN  {(weight_ok \/ volume_ok)
            /\ (knapsack_empty \/ (not_all_resources_added /\ rng)) :
         rng \in BOOLEAN}

\* KnapsackMutation.add_random_item
add_random_item(genes) ==
    {IF new_gene = NoGene THEN genes ELSE Append(genes, new_gene) :
        new_gene \in add(genes, remaining_weight(genes),
                         remaining_volume(genes))}

\* KnapsackMutation.change_item_quantity: the gene at a random index gets a
\* quantity from 1 to what the remaining room allows, or is deleted if that
\* is nothing.  On an empty list random.randrange raises: no outcome.
change_item_quantity(genes) ==
    UNION {
        LET resource_to_change == genes[idx].resource
            quantity == max_quantity(resource_to_change,
                                     remaining_weight(genes),
                                     remaining_volume(genes))
        IN  IF quantity > 0
            THEN {[genes EXCEPT
                      ![idx] = ResourceQuantity(resource_to_change, q)] :
                   q \in 1..quantity}
            ELSE {Delete(genes, idx)} :
        idx \in 1..Len(genes)}

NameRank(name) == CHOOSE i \in 1..Len(NameOrder) : NameOrder[i] = name

\* sorted(genes, key=lambda x: x.resource.name): a stable insertion sort
RECURSIVE Insert(_, _)
Insert(gene, genes) ==
    IF genes = <<>> THEN <<gene>>
    ELSE IF NameRank(Head(genes).resource.name) <= NameRank(gene.resource.name)
    THEN <<Head(genes)>> \o Insert(gene, Tail(genes))
    ELSE <<gene>> \o genes

RECURSIVE sorted(_)
sorted(genes) ==
    IF genes = <<>> THEN <<>>
    ELSE Insert(genes[Len(genes)], sorted(SubSeq(genes, 1, Len(genes) - 1)))

\* KnapsackMutation.__call__: the children it can return, each with the
\* step that made it
KnapsackMutation(chromosome) ==
    UNION {
        UNION {
            IF choice
            THEN {[genes |-> g, op |-> "add_random_item"] :
                     g \in add_random_item(genes)}
            ELSE {[genes |-> sorted(g), op |-> "change_item_quantity"] :
                     g \in change_item_quantity(genes)} :
            choice \in choose_to_add_item(genes)} :
        genes \in RemovedItem(chromosome.genes)}

KnapsackInit ==
    /\ NoRunner
    /\ Only("knapsack")
    /\ knapsack = NoCandidate
    /\ \E k \in Knapsacks : max_weight = k[1] /\ max_volume = k[2]
    /\ knapsack_op = "none"

\* chromosome_generator()
KnapsackGenerate ==
    /\ knapsack_op = "none"
    /\ \E genes \in KnapsackChromosomeGenerator :
          knapsack' = Chromosome(genes, 0)
    /\ knapsack_op' = "generator"
    /\ UNCHANGED <<max_weight, max_volume>>
    /\ UNCHANGED <<engine_vars, card_vars,
                   fixture_vars, magic_vars, board_vars,
                   knight_vars>>

\* mutation(parent), on the chromosome in hand
KnapsackMutate ==
    /\ knapsack_op # "none"
    /\ \E child \in KnapsackMutation(knapsack) :
          /\ knapsack' = Chromosome(child.genes, knapsack.age)
          /\ knapsack_op' = child.op
    /\ UNCHANGED <<max_weight, max_volume>>
    /\ UNCHANGED <<engine_vars, card_vars,
                   fixture_vars, magic_vars, board_vars,
                   knight_vars>>

KnapsackNext == KnapsackGenerate \/ KnapsackMutate

KnapsackSpec == KnapsackInit /\ [][KnapsackNext]_vars

-----------------------------------------------------------------------------
(* The cricket fixture list: src/cricket_fixtures/mutation.py.  The genes   *)
(* are an array of shape (divisions, weeks, games per week, 3): a sequence  *)
(* of divisions, each a sequence of weeks, each a sequence of game slots,   *)
(* each holding a fixture (home team, away team, ground), all 0 if empty.   *)

\* Shapes of fixture lists: (num_divisions, season_length_in_weeks,
\* max_games_per_week)
FixtureShapes == {<<1, 1, 1>>, <<1, 3, 1>>, <<1, 2, 2>>, <<2, 2, 1>>}

Fixtures == {<<0, 0, 0>>, <<1, 2, 1>>, <<2, 1, 2>>}

\* The fixture lists of a shape
FixtureLists(shape) ==
    [1..shape[1] -> [1..shape[2] -> [1..shape[3] -> Fixtures]]]

\* self.max_num_to_swap
max_num_to_swap == 2

num_divisions(genes) == Len(genes)
season_length_in_weeks(genes) == Len(genes[1])
max_games_per_week(genes) == Len(genes[1][1])

\* random.sample(range(num_divisions), k) for k in 1..num_divisions: the
\* divisions, each at most once, in any order (1-based here)
SampledDivisions(genes) ==
    {divisions \in UNION {[1..k -> 1..num_divisions(genes)] :
                             k \in 1..num_divisions(genes)} :
        \A i, j \in 1..Len(divisions) :
            i # j => divisions[i] # divisions[j]}

\* Mutant: the two fixtures read as views of the array and not copied, so
\* that the second assignment writes back what the first one wrote
SwapTwoFixturesByView(genes, division_num, week_num_1, week_num_2, game_num_1, game_num_2) ==
    [genes EXCEPT ![division_num][week_num_1][game_num_1] =
                      genes[division_num][week_num_2][game_num_2]]

\* FixtureListMutation.swap_two_fixtures
swap_two_fixtures(genes, division_num, week_num_1, week_num_2, game_num_1, game_num_2) ==
    LET fixture_1 == genes[division_num][week_num_1][game_num_1]
        fixture_2 == genes[division_num][week_num_2][game_num_2]
    IN  [genes EXCEPT ![division_num][week_num_1][game_num_1] = fixture_2,
                      ![division_num][week_num_2][game_num_2] = fixture_1]

\* copy.deepcopy(parent): the chromosome handed to mutate() is an object of
\* its own, not the parent
MutatesParent == FALSE

FixtureInit ==
    /\ NoRunner
    /\ Only("fixtures")
    /\ \E shape \in FixtureShapes : fixture_list \in FixtureLists(shape)
    /\ fixture_child = <<>>
    /\ swaps = [pc |-> "start"]

\* FixtureListMutation.__call__ up to the loop over the divisions of
\* SwapUpToNFixturesMutation.mutate
FixtureMutationCall ==
    /\ swaps.pc = "start"
    /\ fixture_child' = fixture_list
    /\ \E divisions \in SampledDivisions(fixture_list) :
          swaps' = [pc |-> "division", parent |-> fixture_list,
                    shared |-> MutatesParent,
                    divisions |-> divisions, count |-> 0]
    /\ UNCHANGED fixture_list
    /\ UNCHANGED <<engine_vars, card_vars,
                   knapsack_vars, magic_vars, board_vars,
                   knight_vars>>

\* for division_num in divisions: the next division, and how many swaps
\* it gets, random.randrange(1, self.max_num_to_swap + 1)
FixtureDivision ==
    /\ swaps.pc = "division"
    /\ swaps.divisions # <<>>
    /\ \E count \in 1..max_num_to_swap :
          swaps' = [swaps EXCEPT !.pc = "swap", !.count = count]
    /\ UNCHANGED <<fixture_list, fixture_child>>
    /\ UNCHANGED <<engine_vars, card_vars,
                   knapsack_vars, magic_vars, board_vars,
                   knight_vars>>

\* One pass of the inner loop: choose_two_fixtures (two different weeks, a
\* game slot in each) and swap_two_fixtures.  With a season of one week
\* choose_two_fixtures never finds a second week: no pass ends.
FixtureSwap ==
    /\ swaps.pc = "swap"
    /\ \E week_num_1, week_num_2 \in 1..season_length_in_weeks(fixture_child),
          game_num_1, game_num_2 \in 1..max_games_per_week(fixture_child) :
          /\ week_num_1 # week_num_2
          /\ fixture_child' =
                 swap_two_fixtures(fixture_child, Head(swaps.divisions),
                                   week_num_1, week_num_2,
                                   game_num_1, game_num_2)
    /\ fixture_list' = IF swaps.shared THEN fixture_child' ELSE fixture_list
    /\ swaps' = IF swaps.count > 1
                THEN [swaps EXCEPT !.count = swaps.count - 1]
                ELSE [swaps EXCEPT !.pc = "division", !.count = 0,
                                   !.divisions = Tail(swaps.divisions)]
    /\ UNCHANGED <<engine_vars, card_vars,
                   knapsack_vars, magic_vars, board_vars,
                   knight_vars>>

\* return chromosome
FixtureReturn ==
    /\ swaps.pc = "division"
    /\ swaps.divisions = <<>>
    /\ swaps' = [swaps EXCEPT !.pc = "returned"]
    /\ UNCHANGED <<fixture_list, fixture_child>>
    /\ UNCHANGED <<engine_vars, card_vars,
                   knapsack_vars, magic_vars, board_vars,
                   knight_vars>>

FixtureNext ==
    FixtureMutationCall \/ FixtureDivision \/ FixtureSwap \/ FixtureReturn

FixtureSpec == FixtureInit /\ [][FixtureNext]_vars

-----------------------------------------------------------------------------
(* The magic square: scripts/ch08/magic_squares.py.  The genes are a square *)
(* array, here a sequence of rows; indices are 1-based, so the index (0, 0) *)
(* of the code is <<1, 1>>.                                                 *)

side_length(genes) == Len(genes)

\* The index pairs random.randint(0, side_length - 1) twice can give
Indices(genes) == (1..side_length(genes)) \X (1..side_length(genes))

\* np.arange(1, side_length**2 + 1).reshape(side_length, -1)
MagicSquaresChromosomeGenerator(n) ==
    [i \in 1..n |-> [j \in 1..n |-> (i - 1) * n + j]]

\* The square of the test, a magic one
LoShu == <<<<8, 1, 6>>, <<3, 5, 7>>, <<4, 9, 2>>>>

\* Squares holding 1..n^2 once each, which is what the generator makes and
\* what swaps keep: all of them for sides 1 and 2, two of them for side 3
MagicSquares ==
    {MagicSquaresChromosomeGenerator(1)}
    \cup {genes \in [1..2 -> [1..2 -> 1..4]] :
             \A a, b \in (1..2) \X (1..2) :
                 a # b => genes[a[1]][a[2]] # genes[b[1]][b[2]]}
    \cup {MagicSquaresChromosomeGenerator(3), LoShu}

\* Mutant: the second cell written first and then read back, so that both
\* cells end with the value of the second
SwapGenesByOverwrite(genes, idx_1, idx_2) ==
    [genes EXCEPT ![idx_1[1]][idx_1[2]] = genes[idx_2[1]][idx_2[2]]]

\* child.genes[idx_1], child.genes[idx_2] =
\*     child.genes[idx_2], child.genes[idx_1]
\* The right side is evaluated first, to two scalars.  With idx_1 = idx_2
\* the cell is written twice with its own value.
swap_genes(genes, idx_1, idx_2) ==
    LET gene_1 == genes[idx_1[1]][idx_1[2]]
        gene_2 == genes[idx_2[1]][idx_2[2]]
    IN  IF idx_1 = idx_2
        THEN genes
        ELSE [genes EXCEPT ![idx_1[1]][idx_1[2]] = gene_2,
                           ![idx_2[1]][idx_2[2]] = gene_1]

MagicInit ==
    /\ NoRunner
    /\ Only("magic_square")
    /\ magic_square \in MagicSquares
    /\ magic_child = <<>>
    /\ magic_pc = [pc |-> "start"]

\* MagicSquaresMutation.__call__: child = deepcopy(parent), and
\* swap_two_genes up to its loop, idx_1 = idx_2 = (0, 0)
MagicMutationCall ==
    /\ magic_pc.pc = "start"
    /\ magic_child' = magic_square
    /\ magic_pc' = [pc |-> "test", parent |-> magic_square,
                    idx_1 |-> <<1, 1>>, idx_2 |-> <<1, 1>>]
    /\ UNCHANGED magic_square
    /\ UNCHANGED <<engine_vars, card_vars,
                   knapsack_vars, fixture_vars, board_vars,
                   knight_vars>>

\* while idx_1 == idx_2: the test holds, the body is entered
SwapLoopTest ==
    /\ magic_pc.pc = "test"
    /\ magic_pc.idx_1 = magic_pc.idx_2
    /\ magic_pc' = [magic_pc EXCEPT !.pc = "body"]
    /\ UNCHANGED <<magic_square, magic_child>>
    /\ UNCHANGED <<engine_vars, card_vars,
                   knapsack_vars, fixture_vars, board_vars,
                   knight_vars>>

\* The body of the loop with the two indices it draws: the two cells are
\* exchanged whether or not the indices differ
SwapPass(idx_1, idx_2) ==
    /\ magic_pc.pc = "body"
    /\ magic_child' = swap_genes(magic_child, idx_1, idx_2)
    /\ magic_pc' = [magic_pc EXCEPT !.pc = "test",
                                    !.idx_1 = idx_1, !.idx_2 = idx_2]
    /\ UNCHANGED magic_square
    /\ UNCHANGED <<engine_vars, card_vars,
                   knapsack_vars, fixture_vars, board_vars,
                   knight_vars>>

\* swap_two_genes, the body of its loop
swap_two_genes ==
    \E idx_1, idx_2 \in Indices(magic_child) : SwapPass(idx_1, idx_2)

\* The passes that draw two different indices.  Each pass draws afresh and
\* uniformly, so where such a pair exists a run of passes that never draws
\* one has probability 0.
SwapPassDistinct ==
    \E idx_1, idx_2 \in Indices(magic_child) :
        idx_1 # idx_2 /\ SwapPass(idx_1, idx_2)

\* The loop test fails: return child
MagicReturn ==
    /\ magic_pc.pc = "test"
    /\ magic_pc.idx_1 # magic_pc.idx_2
    /\ magic_pc' = [magic_pc EXCEPT !.pc = "returned"]
    /\ UNCHANGED <<magic_square, magic_child>>
    /\ UNCHANGED <<engine_vars, card_vars,
                   knapsack_vars, fixture_vars, board_vars,
                   knight_vars>>

MagicNext ==
    MagicMutationCall \/ SwapLoopTest \/ swap_two_genes \/ MagicReturn

\* The interpreter runs the call on while a step is left to take, and the
\* loop does not draw equal indices for ever when it can draw others
MagicSpec ==
    /\ MagicInit
    /\ [][MagicNext]_vars
    /\ WF_vars(MagicNext)
    /\ SF_vars(SwapPassDistinct)

-----------------------------------------------------------------------------
(* The chess board: src/chess.py.  A Board is an array of pieces, here a    *)
(* sequence of rows, board[y][x] for self[y, x]; x and y are 1-based.  A    *)
(* piece is a record of its class and its dataclass fields, so that two     *)
(* pieces are equal as the dataclasses compare them: same class, same       *)
(* fields.                                                                  *)

PiecePosition(x, y) == [x |-> x, y |-> y]

\* Piece(piece_type): colour WHITE, not captured
Piece(piece_type) ==
    [class |-> "Piece", piece_type |-> piece_type, colour |-> "w",
     captured |-> FALSE]

\* EmptyPiece(): a class of its own, piece_type EMPTY
EmptyPiece ==
    [class |-> "EmptyPiece", piece_type |-> ".", colour |-> "w",
     captured |-> FALSE]

\* Knight(): piece_type KNIGHT
Knight ==
    [class |-> "Knight", piece_type |-> "N", colour |-> "w",
     captured |-> FALSE]

height(b) == Len(b)
width(b) == Len(b[1])

\* Board.positions(): every position of the board
positions(b) ==
    {PiecePosition(x, y) : x \in 1..width(b), y \in 1..height(b)}

\* Board.positions(piece_type=...): the positions holding such a piece
positions_of(b, piece_type) ==
    {position \in positions(b) :
        b[position.y][position.x].piece_type = piece_type}

\* Board.empty_board: every square Piece(PieceType.EMPTY)
empty_board(h, w) == [y \in 1..h |-> [x \in 1..w |-> Piece(".")]]

\* Board.place
place(b, piece, position) ==
    [b EXCEPT ![position.y][position.x] = piece]

\* Board.move: the piece is placed on the new square, then an EmptyPiece
\* on the old one, whether or not the two are one square
move(b, old_position, new_position) ==
    LET piece == b[old_position.y][old_position.x]
    IN  place(place(b, piece, new_position), EmptyPiece, old_position)

\* (height, width) of the boards
BoardShapes == {<<2, 2>>, <<1, 3>>}

NoMove == <<>>

BoardInit ==
    /\ NoRunner
    /\ Only("board")
    /\ \E shape \in BoardShapes : board = empty_board(shape[1], shape[2])
    /\ moved = NoMove

\* board.place(Knight(), position)
BoardPlace ==
    /\ \E position \in positions(board) :
          board' = place(board, Knight, position)
    /\ moved' = NoMove
    /\ UNCHANGED <<engine_vars, card_vars,
                   knapsack_vars, fixture_vars, magic_vars,
                   knight_vars>>

\* board.move(old_position, new_position)
BoardMove ==
    /\ \E old_position, new_position \in positions(board) :
          /\ board' = move(board, old_position, new_position)
          /\ moved' = [before |-> board, old_position |-> old_position,
                       new_position |-> new_position]
    /\ UNCHANGED <<engine_vars, card_vars,
                   knapsack_vars, fixture_vars, magic_vars,
                   knight_vars>>

BoardNext == BoardPlace \/ BoardMove

BoardSpec == BoardInit /\ [][BoardNext]_vars

-----------------------------------------------------------------------------
(* The knights: scripts/ch07/knight_attack.py.  The genes of a chromosome   *)
(* are a Board.                                                             *)

\* self.max_knights
MaxKnights == {1, 2}

\* Boards of 2 by 2 with knights placed on an empty board
KnightBoards ==
    {[y \in 1..2 |-> [x \in 1..2 |->
          IF PiecePosition(x, y) \in knights THEN Knight ELSE Piece(".")]] :
        knights \in SUBSET positions(empty_board(2, 2))}

\* GeneSet(tuple(board.positions(include_edges=True)))
gene_set(b) == positions(b)

\* for _ in range(...): child.genes.move(knight_position, new_position),
\* with the knight_position each pass chooses
RECURSIVE MoveKnights(_, _, _)
MoveKnights(b, chosen, new_position) ==
    IF chosen = <<>>
    THEN b
    ELSE MoveKnights(move(b, Head(chosen), new_position), Tail(chosen),
                     new_position)

\* random.choice(range(4)) passes, each with random.choice(knight_positions)
\* out of the list made before the first move
ChosenKnights(knight_positions) ==
    UNION {[1..n -> knight_positions] : n \in 0..3}

KnightInit ==
    /\ NoRunner
    /\ Only("knights")
    /\ knight_parent \in KnightBoards
    /\ knight_child = <<>>
    /\ \E max_knights \in MaxKnights :
          knight_moves = [pc |-> "start", max_knights |-> max_knights]

\* KnightAttackMutation.__call__: child = deepcopy(parent); with fewer
\* knights than max_knights a knight is placed on a position drawn anew,
\* else 0 to 3 moves are made, all to the one new_position
KnightAttackMutation ==
    /\ knight_moves.pc = "start"
    /\ LET child == knight_parent
           knight_positions == positions_of(child, "N")
       IN  \E new_position \in gene_set(child) :
              IF Cardinality(knight_positions) < knight_moves.max_knights
              THEN /\ knight_child' = place(child, Knight, new_position)
                   /\ knight_moves' =
                          [pc |-> "returned",
                           max_knights |-> knight_moves.max_knights,
                           branch |-> "place",
                           new_position |-> new_position,
                           chosen |-> <<>>]
              ELSE \E chosen \in ChosenKnights(knight_positions) :
                      /\ knight_child' =
                             MoveKnights(child, chosen, new_position)
                      /\ knight_moves' =
                             [pc |-> "returned",
                              max_knights |-> knight_moves.max_knights,
                              branch |-> "move",
                              new_position |-> new_position,
                              chosen |-> chosen]
    /\ UNCHANGED knight_parent
    /\ UNCHANGED <<engine_vars, card_vars,
                   knapsack_vars, fixture_vars, magic_vars,
                   board_vars>>

\* Runner.run: the child is the parent of the next call, parent = child
KnightParentReplaced ==
    /\ knight_moves.pc = "returned"
    /\ knight_parent' = knight_child
    /\ knight_child' = <<>>
    /\ knight_moves' = [pc |-> "start",
                        max_knights |-> knight_moves.max_knights]
    /\ UNCHANGED <<engine_vars, card_vars,
                   knapsack_vars, fixture_vars, magic_vars,
                   board_vars>>

KnightNext == KnightAttackMutation \/ KnightParentReplaced

KnightSpec == KnightInit /\ [][KnightNext]_vars

-----------------------------------------------------------------------------
(* The card problem: scripts/ch06/card_problem.py.  Ten cards, the first    *)
(* five to sum to 36 and the last five to multiply to 360.                  *)

\* CardProblemChromosome.left_group: genes[:5]
left_group(genes) == SubSeq(genes, 1, Min(5, Len(genes)))

\* CardProblemChromosome.right_group: genes[5:]
right_group(genes) == SubSeq(genes, 6, Len(genes))

\* np.sum
RECURSIVE np_sum(_)
np_sum(group) ==
    IF group = <<>> THEN 0 ELSE Head(group) + np_sum(Tail(group))

\* np.prod
RECURSIVE np_prod(_)
np_prod(group) ==
    IF group = <<>> THEN 1 ELSE Head(group) * np_prod(Tail(group))

\* CardProblemFitness.count_duplicates: len(genes) - len(set(genes))
count_duplicates(genes) ==
    Len(genes) - Cardinality({genes[i] : i \in DOMAIN genes})

\* CardProblemFitness.sum_of_cards_fitness, target = 36:
\* np.abs(np.sum(left_group) - target)
sum_of_cards_fitness(genes) ==
    LET difference == np_sum(left_group(genes)) - 36
    IN  IF difference < 0 THEN 0 - difference ELSE difference

\* CardProblemFitness.product_of_cards_fitness, target = 360:
\* np.abs(np.prod(right_group) - target)
product_of_cards_fitness(genes) ==
    LET difference == np_prod(right_group(genes)) - 360
    IN  IF difference < 0 THEN 0 - difference ELSE difference

\* CardProblemFitness.total_difference
total_difference(genes) ==
    sum_of_cards_fitness(genes) + product_of_cards_fitness(genes)

\* CardProblemFitness.__gt__: when the numbers of duplicates differ, the
\* code returns self.count_duplicates() < self.count_duplicates()
CardProblemFitness(self, other) ==
    IF count_duplicates(self) # count_duplicates(other)
    THEN count_duplicates(self) < count_duplicates(self)
    ELSE total_difference(self) < total_difference(other)

\* The chromosomes compared: a solution (2 + 7 + 8 + 9 + 10 = 36 and
\* 1 * 3 * 4 * 5 * 6 = 360) with the first card of each group replaced by
\* one of the cards 1 to 4
CardChromosomes ==
    {[<<2, 7, 8, 9, 10, 1, 3, 4, 5, 6>> EXCEPT ![1] = c, ![6] = d] :
        c \in 1..4, d \in 1..4}

CardInit ==
    /\ cards \in CardChromosomes \X CardChromosomes \X CardChromosomes
    /\ card_gt = <<>>
    /\ NoRunner
    /\ Only("cards")

\* self.fitness(a) > self.fitness(b), for each two of the chromosomes
CardCompare ==
    /\ card_gt = <<>>
    /\ card_gt' = [i \in DOMAIN cards |->
                      [j \in DOMAIN cards |->
                          CardProblemFitness(cards[i], cards[j])]]
    /\ UNCHANGED cards
    /\ UNCHANGED <<engine_vars, knapsack_vars, fixture_vars, magic_vars,
                   board_vars, knight_vars>>

CardSpec == CardInit /\ [][CardCompare]_vars

-----------------------------------------------------------------------------
(* Properties *)

AgeAnnealingPass == runner = "AgeAnnealingRunner" /\ gen.branch # "none"

\* C1: in AgeAnnealingRunner.run, whenever best_parent is reassigned the new
\* best_parent is at least as fit as the one it replaces: after every pass
\* of the loop best_parent's fitness is no lower than before the pass.
C1_BestParentNeverWorse ==
    AgeAnnealingPass => Fitness(best_parent) >= Fitness(gen.best_parent)

\* C2: with stagnation limit N, once N consecutive generations have each
\* produced a child that does not improve on best_parent (worse or equally
\* fit), run() has returned, and what it returned is best_parent.
C2_StagnationTerminates ==
    (pc # "start" /\ fitness_stagnation_limit >= 1
        /\ stagnant >= fitness_stagnation_limit)
        => (pc = "done" /\ result.candidate = best_parent)

\* C3: if the stopping criteria holds for the candidate the generator
\* returned, run() returns that candidate and mutate is never called.
C3_InitialCandidateReturned ==
    (pc # "start" /\ Fitness(initial) >= optimal_fitness)
        => /\ pc = "done"
           /\ result = Return(initial, "initial")
           /\ iteration_num = 0
           /\ gen = NoGeneration

C3_Witness ==
    /\ pc = "done"
    /\ result.why = "initial"
    /\ result.candidate.genes = Target

\* C4: with a fitness that is 0 for every candidate, a stopping criteria
\* that never holds and fitness_stagnation_limit = 5, run() returns at the
\* end of the 5th generation, and returns the initial candidate.
C4_ZeroFitnessStopsAfterFive ==
    (fitness = "ZeroFitness" /\ fitness_stagnation_limit = 5
        /\ iteration_num >= 5)
        => (pc = "done" /\ iteration_num = 5 /\ result.candidate = initial)

\* C5: in AgeAnnealingRunner.run a child strictly fitter than the parent
\* becomes the parent with age 0, and a child as fit as the parent becomes
\* the parent with the replaced parent's age plus 1.
C5_AgeOfNewParent ==
    AgeAnnealingPass =>
        /\ Fitness(gen.child) > Fitness(gen.parent)
              => (parent.genes = gen.child.genes /\ parent.age = 0)
        /\ Fitness(gen.child) = Fitness(gen.parent)
              => (parent.genes = gen.child.genes
                  /\ parent.age = gen.parent.age + 1)

C5_Witness ==
    /\ AgeAnnealingPass
    /\ Fitness(gen.child) = Fitness(gen.parent)
    /\ gen.parent.age >= 1
    /\ parent.age = gen.parent.age + 1
    /\ gen.child.age = 0

\* C6: when AgeAnnealingRunner.run returns because the stagnation detector
\* fired, the candidate returned is at least as fit as every candidate
\* best_parent has named during the run.
C6_StagnationReturnsBest ==
    (runner = "AgeAnnealingRunner" /\ pc = "done"
        /\ result.why = "stagnation")
        => Fitness(result.candidate) >= best_seen

\* C7: display is called in a generation exactly when its child is strictly
\* fitter than the best_parent of that generation.
C7_DisplayOnImprovementOnly ==
    gen.branch # "none"
        => (gen.displayed <=> Fitness(gen.child) > Fitness(gen.best_parent))

\* C8: in the password-guessing scenario the candidate run() returns has
\* genes equal to the target.
C8_PasswordFound ==
    pc = "done" => result.candidate.genes = Target

\* C9: right after the start of any AgeAnnealingRunner.run invocation (the
\* loop not entered yet) the fitness history holds exactly the fitness of the
\* initial candidate, and the stagnation detector has counted nothing.
C9_FreshStateEachRun ==
    (runner = "AgeAnnealingRunner" /\ pc = "loop" /\ iteration_num = 0)
        => /\ historical_fitnesses = <<Fitness(initial)>>
           /\ last_fitness = None
           /\ last_generation = 0

\* C10: a run() called without a fitness_stagnation_limit never returns
\* because of stagnation: what it returns satisfies the stopping criteria.
C10_NoLimitNoStagnation ==
    (pc = "done" /\ fitness_stagnation_limit = DefaultFitnessStagnationLimit)
        => (result.why # "stagnation" /\ StoppingCriteria(result.candidate))

\* C11: run() with a fitness_stagnation_limit that is zero or negative ends
\* in an error before any generation: it is over, no candidate was returned
\* and mutate was never called.
C11_NonPositiveLimitRejected ==
    (pc # "start" /\ fitness_stagnation_limit <= 0)
        => /\ pc = "done"
           /\ result.why = "error"
           /\ result.candidate = NoCandidate
           /\ iteration_num = 0

\* C12: two run() invocations that the caller preceded by seeding the random
\* source with the same value perform the same number of generations and
\* return the same candidate.
C12_SameSeedSameRun ==
    (pc = "done" /\ Len(seeded_runs) = 2
        /\ seeded_runs[1].seed = seeded_runs[2].seed)
        => /\ result.candidate = seeded_runs[2].returned.candidate
           /\ iteration_num = seeded_runs[2].iteration_num

\* The last pass of AgeAnnealingRunner.run came to the annealing test: its
\* child was strictly worse than the parent, stagnation was not signalled,
\* and the parent's age, once incremented, had reached age_limit
AnnealingTested ==
    /\ AgeAnnealingPass
    /\ Fitness(gen.parent) > Fitness(gen.child)
    /\ ~(pc = "done" /\ result.why = "stagnation")
    /\ ~NoAgeLimit
    /\ ~BelowAgeLimit(gen.parent.age + 1)

\* r < exp(-p) in that pass
AnnealingAccepted ==
    AnnealingDraw(gen.draw, gen.index, Len(gen.historical_fitnesses))

\* C18: in a pass that comes to the annealing test and draws r not below
\* exp(-p), best_parent's age is set to 0, the parent is reverted to
\* best_parent (the next pass mutates best_parent), the worse child is
\* dropped, and best_parent is the candidate it was before the pass.
C18_RevertKeepsBestParent ==
    (AnnealingTested /\ ~AnnealingAccepted)
        => /\ best_parent.genes = gen.best_parent.genes
           /\ best_parent.age = 0
           /\ parent = best_parent
           /\ aliased

\* C19: in a pass that comes to the annealing test and draws r below
\* exp(-p), the child becomes the parent with the age the mutation gave it,
\* best_parent and the fitness history are unchanged, display is not called
\* and the stopping criteria is not evaluated.
C19_AnnealedChildBecomesParent ==
    (AnnealingTested /\ AnnealingAccepted)
        => /\ parent = gen.child
           /\ best_parent = gen.best_parent
           /\ historical_fitnesses = gen.historical_fitnesses
           /\ ~gen.displayed
           /\ ~gen.stopping_checked
           /\ pc = "loop"

\* C20: the numerator of p in the annealing test is the number of entries of
\* the fitness history that are less than or equal to the child's fitness
\* (the denominator being the length of the history).
C20_ProportionCountsLessOrEqual ==
    gen.draw # None
        => gen.index =
              Cardinality({i \in 1..Len(gen.historical_fitnesses) :
                  gen.historical_fitnesses[i] <= Fitness(gen.child)})

\* C13: every chromosome KnapsackChromosomeGenerator produces, and every one
\* that any sequence of KnapsackMutation calls makes of it, has
\* total_weight <= max_weight and total_volume <= max_volume.
C13_KnapsackWithinCapacity ==
    knapsack_op # "none"
        => /\ total_weight(knapsack.genes) <= max_weight
           /\ total_volume(knapsack.genes) <= max_volume

C13_Witness ==
    /\ knapsack_op = "change_item_quantity"
    /\ Len(knapsack.genes) = 2
    /\ knapsack.genes[1].quantity >= 2
    /\ knapsack.genes[2].quantity >= 2
    /\ 2 * total_volume(knapsack.genes) >= max_volume

\* The slots of a division that hold the fixture
SlotsHolding(genes, division_num, fixture) ==
    {slot \in (1..Len(genes[division_num]))
                 \X (1..Len(genes[division_num][1])) :
        genes[division_num][slot[1]][slot[2]] = fixture}

\* C14: when SwapUpToNFixturesMutation returns, the parent's genes are what
\* they were, the child has the parent's shape, and every division of the
\* child holds each fixture as many times as that division of the parent.
C14_FixturesStayInDivision ==
    swaps.pc = "returned"
        => /\ fixture_list = swaps.parent
           /\ DOMAIN fixture_child = DOMAIN fixture_list
           /\ \A d \in DOMAIN fixture_list :
                 /\ DOMAIN fixture_child[d] = DOMAIN fixture_list[d]
                 /\ \A w \in DOMAIN fixture_list[d] :
                       DOMAIN fixture_child[d][w] = DOMAIN fixture_list[d][w]
                 /\ \A fixture \in Fixtures :
                       Cardinality(SlotsHolding(fixture_child, d, fixture))
                         = Cardinality(SlotsHolding(fixture_list, d, fixture))

C14_Witness ==
    /\ swaps.pc = "returned"
    /\ num_divisions(fixture_list) = 2
    /\ fixture_child[1] # fixture_list[1]
    /\ fixture_child[2] # fixture_list[2]


\* The cells in which two squares of one shape differ
DifferingCells(genes_1, genes_2) ==
    {idx \in Indices(genes_1) :
        genes_1[idx[1]][idx[2]] # genes_2[idx[1]][idx[2]]}

\* The child differs from the parent in exactly two cells, whose values are
\* exchanged, and the parent's genes are what they were at the call
TwoGenesExchanged ==
    /\ magic_square = magic_pc.parent
    /\ Cardinality(DifferingCells(magic_child, magic_square)) = 2
    /\ \E a, b \in DifferingCells(magic_child, magic_square) :
          /\ a # b
          /\ magic_child[a[1]][a[2]] = magic_square[b[1]][b[2]]
          /\ magic_child[b[1]][b[2]] = magic_square[a[1]][a[2]]

\* C15: for a parent square of side 2 or more whose cells hold pairwise
\* distinct values, MagicSquaresMutation terminates, and the child it
\* returns differs from the parent in exactly two cells, whose values are
\* exchanged, while the parent's genes are unchanged.
C15_SwapsTwoCellsFromSide2 ==
    /\ [](magic_pc.pc = "returned" /\ side_length(magic_square) >= 2
             => TwoGenesExchanged)
    /\ (magic_pc.pc = "test" /\ side_length(magic_square) >= 2)
           ~> (magic_pc.pc = "returned")

\* C15 as stated, for a parent square of any side: the call terminates and
\* the child differs from the parent in exactly two exchanged cells
C15_SwapsTwoCells ==
    /\ [](magic_pc.pc = "returned" => TwoGenesExchanged)
    /\ (magic_pc.pc = "test") ~> (magic_pc.pc = "returned")

C15_Witness ==
    /\ magic_pc.pc = "returned"
    /\ magic_pc.parent = LoShu
    /\ magic_pc.idx_1 = <<1, 1>>
    /\ magic_pc.idx_2 = <<3, 3>>
    /\ magic_child[1][1] = 2
    /\ magic_child[3][3] = 8


\* The piece on a square
At(b, position) == b[position.y][position.x]

\* C16: after Board.move(old, new) the piece that was at old before the
\* call is at new, every square other than old and new is unchanged, and
\* when old differs from new, old holds an empty piece.
C16_MoveCarriesPiece ==
    moved # NoMove
        => /\ At(board, moved.new_position)
                  = At(moved.before, moved.old_position)
           /\ \A position \in positions(board) :
                 position \notin {moved.old_position, moved.new_position}
                     => At(board, position) = At(moved.before, position)
           /\ moved.old_position # moved.new_position
                 => At(board, moved.old_position).piece_type = "."


\* C17: the child KnightAttackMutation returns has a board that differs
\* from the parent's board in at least one square.
C17_ChildBoardDiffers ==
    knight_moves.pc = "returned"
        => \E position \in positions(knight_parent) :
              At(knight_child, position) # At(knight_parent, position)

\* C21: in a pass of AgeAnnealingRunner.run whose child is as fit as the
\* parent, the child replaces the parent and the loop goes on; best_parent
\* and the fitness history are what they were, display is not called and
\* the stopping criteria is not evaluated.
C21_EqualChildReplacesParent ==
    (AgeAnnealingPass /\ Fitness(gen.child) = Fitness(gen.parent))
        => /\ parent.genes = gen.child.genes
           /\ pc = "loop"
           /\ best_parent = gen.best_parent
           /\ historical_fitnesses = gen.historical_fitnesses
           /\ ~gen.displayed
           /\ ~gen.stopping_checked

C21_Witness ==
    /\ AgeAnnealingPass
    /\ Fitness(gen.child) = Fitness(gen.parent)
    /\ gen.child.genes # gen.parent.genes
    /\ Fitness(gen.best_parent) > Fitness(gen.parent)
    /\ parent.genes = gen.child.genes
    /\ best_parent = gen.best_parent

\* C22: with age_limit unset (0) or infinite, a child strictly worse than
\* the parent never becomes the parent: after the pass the parent has the
\* genes it had and best_parent is unchanged.
C22_NoAnnealingWithoutAgeLimit ==
    (AgeAnnealingPass /\ age_limit \in {0, Infinite}
        /\ Fitness(gen.child) < Fitness(gen.parent))
        => /\ parent.genes = gen.parent.genes
           /\ best_parent = gen.best_parent

\* C23: with a RelativeFitness, a pass of AgeAnnealingRunner.run in which
\* neither fitness(parent) > fitness(child) nor fitness(child) >
\* fitness(parent) is handled as fitness-equal: the child becomes the parent
\* with age parent.age + 1, best_parent is not updated, display is not
\* called and the stopping criteria is not evaluated.
C23_IncomparableHandledAsEqual ==
    (AgeAnnealingPass /\ fitness = "RelativeFitness"
        /\ ~(Fitness(gen.parent) > Fitness(gen.child))
        /\ ~(Fitness(gen.child) > Fitness(gen.parent)))
        => /\ parent.genes = gen.child.genes
           /\ parent.age = gen.parent.age + 1
           /\ best_parent = gen.best_parent
           /\ ~gen.displayed
           /\ ~gen.stopping_checked

\* C24: in AgeAnnealingRunner.run, at the start of every generation the last
\* entry of the fitness history is the fitness of the current best_parent,
\* and a pass appends an entry exactly when it replaces best_parent.
C24_HistoryFollowsBestParent ==
    /\ (runner = "AgeAnnealingRunner" /\ pc = "loop")
          => historical_fitnesses[Len(historical_fitnesses)]
                 = Fitness(best_parent)
    /\ AgeAnnealingPass
          => ((\/ gen.new_best
               \/ (gen.branch \in {"better", "reverted_better"}
                      /\ pc = "loop"))
                 <=> historical_fitnesses # gen.historical_fitnesses)

\* C25: a FitnessStagnationDetection with limit N >= 1: a call of a fitness
\* strictly greater than the stored one, or the first call, stores that
\* fitness, resets the count to 0 and returns False; any other call adds 1
\* to the count; and a call returns True exactly when the calls without
\* improvement since the last reset are at least N.
C25_DetectorCountsStagnation ==
    detector_call.pc = "called"
        => LET storing == \/ detector_call.last_fitness = None
                          \/ detector_call.fitness > detector_call.last_fitness
           IN  /\ storing
                     => /\ last_fitness = detector_call.fitness
                        /\ last_generation = 0
                        /\ ~detector_call.returned
               /\ ~storing
                     => /\ last_fitness = detector_call.last_fitness
                        /\ last_generation = detector_call.last_generation + 1
               /\ detector_call.returned
                     <=> detector_call.count >= fitness_stagnation_limit

C25_Witness ==
    /\ detector_call.pc = "called"
    /\ fitness_stagnation_limit = 2
    /\ detector_call.fitness = 1
    /\ detector_call.last_fitness = 1
    /\ detector_call.last_generation = 1
    /\ detector_call.returned
    /\ last_generation = 2

\* C26: the greater-than of CardProblemFitness is a strict weak ordering of
\* the card chromosomes: no chromosome is greater than itself, no two are
\* each greater than the other, 'neither is greater' is transitive, and a
\* chromosome with fewer duplicate cards is greater than one with more.
C26_StrictWeakOrdering ==
    card_gt # <<>>
        => \A i, j, k \in DOMAIN cards :
              /\ ~card_gt[i][i]
              /\ card_gt[i][j] => ~card_gt[j][i]
              /\ (/\ ~card_gt[i][j] /\ ~card_gt[j][i]
                  /\ ~card_gt[j][k] /\ ~card_gt[k][j])
                    => ~card_gt[i][k] /\ ~card_gt[k][i]
              /\ count_duplicates(cards[i]) < count_duplicates(cards[j])
                    => card_gt[i][j]

\* C27: KnapsackMutation applied to a chromosome that holds at least one
\* item never yields an empty knapsack: after any sequence of mutations from
\* a non-empty chromosome the child's genes list has at least one entry.
C27_KnapsackNeverEmptied ==
    [][(knapsack_op # "none" /\ Len(knapsack.genes) >= 1)
          => Len(knapsack'.genes) >= 1]_vars

\* C28: whenever AgeAnnealingRunner.run executes the percentile lookup
\* (bisect_left over historical_fitnesses), historical_fitnesses is in
\* non-decreasing order, and the index returned is the rank of the child's
\* fitness in the history.
C28_HistorySortedAtLookup ==
    (AgeAnnealingPass /\ gen.draw # None)
        => LET history == gen.historical_fitnesses
           IN  /\ \A i, j \in DOMAIN history :
                     i < j => history[i] <= history[j]
               /\ gen.index =
                     Cardinality({i \in DOMAIN history :
                                     history[i] < Fitness(gen.child)})

\* C29: in AgeAnnealingRunner.run, incrementing the parent's age after a
\* strictly worse child never changes best_parent's age: wherever
\* parent.age is incremented, parent and best_parent are distinct objects,
\* and best_parent's age changes only by the explicit reset to 0.
C29_IncrementLeavesBestParentAge ==
    [][(runner = "AgeAnnealingRunner"
          /\ gen'.branch \in {"below_age_limit", "annealed",
                              "reverted_equal", "reverted_better"})
          => /\ ~aliased
             /\ gen'.branch \in {"below_age_limit", "annealed"}
                   => best_parent'.age = best_parent.age]_vars

\* C30: in Runner.run best_parent is only ever replaced by a child whose
\* fitness is not lower than its own, so best_parent's fitness never
\* decreases during a run, and the candidate returned is at least as fit as
\* every candidate the generator or mutate returned during the run.
C30_RunnerReturnsFittest ==
    (runner = "Runner" /\ pc \in {"loop", "done"})
        => /\ (gen.branch # "none" /\ best_parent # gen.best_parent)
                 => /\ best_parent = gen.child
                    /\ Fitness(gen.child) >= Fitness(gen.best_parent)
           /\ Fitness(best_parent) >= best_seen
           /\ pc = "done" => Fitness(result.candidate) >= fittest_seen

C30_Witness ==
    /\ runner = "Runner"
    /\ pc = "done"
    /\ result.why = "stagnation"
    /\ best_parent # initial
    /\ Fitness(result.candidate) > Fitness(initial)
    /\ Fitness(result.candidate) = fittest_seen
    /\ Fitness(gen.child) < fittest_seen

=============================================================================
